---- MODULE Spec2Model ----
(***************************************************************************)
(* Model of fetch-claude-usage.py: three drivers that try to obtain the    *)
(* text of a `claude` session, the regex cascade parse_usage, the snapshot *)
(* writer save_usage, and the orchestration in main / __main__.            *)
(*                                                                         *)
(* Texts are sequences of one-character strings.  Python values that may   *)
(* be None are tagged records.                                             *)
(***************************************************************************)
EXTENDS Integers, Sequences, FiniteSets, TLC

VARIABLES
    text,       \* parser harness: the raw text handed to parse_usage
    parsed,     \* parser harness: what parse_usage returned for text
    npieces,    \* parser harness: number of pieces text was built from
    pc,         \* position of the program
    pexpectInstalled,   \* environment: the pexpect package can be imported
    platform,   \* environment: sys.platform
    output,     \* main: the local `output`
    percentage, \* main: the local `percentage`
    success,    \* __main__: the value main returned
    status,     \* exit status of the process, None while it runs
    uncaught,   \* where an exception left the program, "" if none did
    child,      \* fetch_usage_with_pexpect: the pexpect session
    exc,        \* fetch_usage_with_pexpect: the exception being handled
    pxout,      \* fetch_usage_with_pexpect: the local `output`
    calls,      \* history of this run: the functions main called, with results
    dirs,       \* file system: the directories that exist
    files,      \* file system: path -> content
    files0,     \* file system: files when this run started
    clock,      \* datetime.now()
    runs        \* number of invocations of the program so far

parseVars == <<text, parsed, npieces>>
mainVars == <<pc, pexpectInstalled, platform, output, percentage, success,
              status, uncaught, child, exc, pxout, calls, dirs, files,
              files0, clock, runs>>
vars == <<text, parsed, npieces, pc, pexpectInstalled, platform, output,
          percentage, success, status, uncaught, child, exc, pxout, calls,
          dirs, files, files0, clock, runs>>

(***************************************************************************)
(* Bounds of the model.                                                    *)
(***************************************************************************)
\* number of text pieces the parser harness concatenates
MaxPieces == 4
\* number of invocations of the program in one behaviour
MaxRuns == 2

(***************************************************************************)
(* Python values.                                                          *)
(***************************************************************************)
None == [tag |-> "None"]
PyStr(s) == [tag |-> "str", s |-> s]
PyInt(n) == [tag |-> "int", n |-> n]

\* a variant of Truthy that tests `is not None` only
TruthyNotNone(v) == v.tag = "str"

\* truthiness of an Optional[str]: `not output` is true for None and for ""
Truthy(v) == v.tag = "str" /\ Len(v.s) > 0

(***************************************************************************)
(* Characters.                                                             *)
(***************************************************************************)
UpperChars == <<"A","B","C","D","E","F","G","H","I","J","K","L","M",
                "N","O","P","Q","R","S","T","U","V","W","X","Y","Z">>
LowerChars == <<"a","b","c","d","e","f","g","h","i","j","k","l","m",
                "n","o","p","q","r","s","t","u","v","w","x","y","z">>

Uppers == {UpperChars[i] : i \in 1..Len(UpperChars)}
LowerOf ==
    [c \in Uppers |->
        LowerChars[CHOOSE i \in 1..Len(UpperChars) : UpperChars[i] = c]]

Lower(c) == IF c \in Uppers THEN LowerOf[c] ELSE c

\* a variant of CharEq that forgets re.IGNORECASE
CharEqCaseSensitive(a, b) == a = b

\* character equality under re.IGNORECASE
CharEq(a, b) == Lower(a) = Lower(b)

Digits == <<"0","1","2","3","4","5","6","7","8","9">>
DigitSet == {Digits[i] : i \in 1..Len(Digits)}
DigitValOf ==
    [c \in DigitSet |-> (CHOOSE i \in 1..Len(Digits) : Digits[i] = c) - 1]

\* \d
IsDigit(c) == c \in DigitSet
DigitVal(c) == DigitValOf[c]

\* \s
IsSpace(c) == c \in {" ", "\n", "\t"}

\* int(match.group(1)) on a run of decimal digits
RECURSIVE IntOf(_)
IntOf(ds) ==
    IF Len(ds) = 0 THEN 0
    ELSE 10 * IntOf(SubSeq(ds, 1, Len(ds) - 1)) + DigitVal(ds[Len(ds)])

(***************************************************************************)
(* The pattern table of parse_usage.  Every pattern has the shape          *)
(*     prefix \s* (\d+) % [ \s* (alt1|alt2) ]                              *)
(* where the \s* after the prefix is present only for a labeled pattern.   *)
(***************************************************************************)
L_5hour   == <<"5","-","h","o","u","r",":">>
L_Model   == <<"M","o","d","e","l"," ","u","s","a","g","e",":">>
L_Usage   == <<"U","s","a","g","e",":">>
L_Current == <<"C","u","r","r","e","n","t"," ","u","s","a","g","e",":">>
S_used    == <<"u","s","e","d">>
S_of      == <<"o","f">>

P_5hour   == [prefix |-> L_5hour,   suffixes |-> {}]
P_Model   == [prefix |-> L_Model,   suffixes |-> {}]
P_Usage   == [prefix |-> L_Usage,   suffixes |-> {}]
P_Current == [prefix |-> L_Current, suffixes |-> {}]
P_UsedOf  == [prefix |-> <<>>,      suffixes |-> {S_used, S_of}]
P_Bare    == [prefix |-> <<>>,      suffixes |-> {}]

\* a variant of the table that tries the bare percentage first
PatternsBareFirst == <<P_Bare, P_5hour, P_Model, P_Usage, P_Current, P_UsedOf>>

Patterns == <<P_5hour, P_Model, P_Usage, P_Current, P_UsedOf, P_Bare>>

\* the literal lit occurs in s at position i (re.IGNORECASE)
LitAt(lit, s, i) ==
    /\ i + Len(lit) - 1 <= Len(s)
    /\ \A k \in 1..Len(lit) : CharEq(lit[k], s[i + k - 1])

\* greedy \s* from position i: the first position >= i that holds no space
RECURSIVE SkipSpaces(_, _)
SkipSpaces(s, i) ==
    IF i <= Len(s) /\ IsSpace(s[i]) THEN SkipSpaces(s, i + 1) ELSE i

\* greedy \d* from position i: the first position >= i that holds no digit
RECURSIVE DigitsEnd(_, _)
DigitsEnd(s, i) ==
    IF i <= Len(s) /\ IsDigit(s[i]) THEN DigitsEnd(s, i + 1) ELSE i

\* the match of pattern p anchored at position i of s: the captured group
\* as an integer, or None.  \s and \d are disjoint and no suffix starts with
\* a space or a digit, so the greedy choice is the only one that can match.
MatchAt(p, s, i) ==
    IF ~LitAt(p.prefix, s, i) THEN None
    ELSE
      LET j == IF Len(p.prefix) > 0 THEN SkipSpaces(s, i + Len(p.prefix))
               ELSE i
          d == DigitsEnd(s, j)
      IN  IF d = j \/ d > Len(s) THEN None
          ELSE IF s[d] # "%" THEN None
          ELSE IF p.suffixes = {} THEN PyInt(IntOf(SubSeq(s, j, d - 1)))
          ELSE LET k == SkipSpaces(s, d + 1)
               IN  IF \E suf \in p.suffixes : LitAt(suf, s, k)
                   THEN PyInt(IntOf(SubSeq(s, j, d - 1)))
                   ELSE None

\* re.search(pattern, output, re.IGNORECASE): the leftmost match
RECURSIVE SearchFrom(_, _, _)
SearchFrom(p, s, i) ==
    IF i > Len(s) THEN None
    ELSE LET m == MatchAt(p, s, i)
         IN  IF m # None THEN m ELSE SearchFrom(p, s, i + 1)

Search(p, s) == SearchFrom(p, s, 1)

\* the for-loop of parse_usage over a pattern table, from the n-th pattern
RECURSIVE FirstMatch(_, _, _)
FirstMatch(pats, s, n) ==
    IF n > Len(pats) THEN None
    ELSE LET m == Search(pats[n], s)
         IN  IF m # None THEN m ELSE FirstMatch(pats, s, n + 1)

\* parse_usage with the pattern table as a parameter
parse_with(pats, out) ==
    IF ~Truthy(out) THEN None
    ELSE FirstMatch(pats, out.s, 1)

parse_usage(out) == parse_with(Patterns, out)

(***************************************************************************)
(* Environment of a run.                                                   *)
(***************************************************************************)
Platforms == {"darwin", "linux"}

\* bytes the pexpect session can hold when r'.*%.*' has matched:
\* child.before is what precedes the matched line, child.after the line
T_Usage42 == <<"U","s","a","g","e",":"," ","4","2","%">>
T_55      == <<"5","5","%">>
T_Percent == <<"%">>
T_Noise   == <<"h","i">>
B_Echo    == <<"<ff>", ">">>

MatchedBuffers ==
    { [before |-> b, after |-> a] :
        b \in {<<>>, B_Echo}, a \in {T_Usage42, T_55, T_Percent} }

\* bytes buffered when the wait for r'.*%.*' timed out: no percent sign
TimeoutBuffers == {<<>>, B_Echo}

\* stdout of `claude` run on pipes, and of osascript
StdoutTexts == {<<>>, T_Noise, T_55, T_Usage42}

\* bytes.decode('utf-8', errors='ignore'): invalid bytes are dropped
decode(bytes) == SelectSeq(bytes, LAMBDA c : c # "<ff>")

\* pexpect.TIMEOUT, the class that expect() leaves in child.after
TIMEOUT == [tag |-> "class", name |-> "TIMEOUT"]
Bytes(b) == [tag |-> "bytes", s |-> b]

\* a variant of the handlers that catches pexpect's own exceptions only
CatchesPexpectOnly(e) == e \in {"ExceptionPexpect", "EOF"}

\* `except Exception`: every exception the drivers can meet derives from it
CatchesException(e) ==
    e \in {"ExceptionPexpect", "EOF", "OSError", "AttributeError",
           "FileNotFoundError", "TimeoutExpired"}

(***************************************************************************)
(* The file system and the snapshot.                                       *)
(***************************************************************************)
dir_path == "~/.openclaw-pet"
file_path == "~/.openclaw-pet/real-usage.json"

\* timedelta(hours=5), in clock ticks of one hour
ResetHours == 5

\* datetime.isoformat()
isoformat(t) == <<"iso", t>>

\* the dict built by save_usage from the value p; t1 and t2 are the two
\* readings of the clock
usage_data(p, t1, t2) ==
    [ percentage   |-> p,
      used         |-> p,
      limit        |-> 100,
      resetAt      |-> isoformat(t1 + ResetHours),
      subscription |-> "Claude Pro",
      type         |-> "5-hour",
      realData     |-> TRUE,
      timestamp    |-> isoformat(t2),
      source       |-> "auto-fetch from Claude Code (Python)" ]

\* a file is the sequence of JSON documents written to it; torn when a
\* write stopped half way
EmptyFile == [docs |-> <<>>, torn |-> FALSE]

\* a variant of OpenForWrite that opens with mode 'a'
OpenForAppend(fs) ==
    IF file_path \in DOMAIN fs THEN fs
    ELSE [q \in DOMAIN fs \cup {file_path} |->
            IF q = file_path THEN EmptyFile ELSE fs[q]]

\* open(file_path, 'w'): creates the file, or truncates it
OpenForWrite(fs) ==
    [q \in DOMAIN fs \cup {file_path} |->
        IF q = file_path THEN EmptyFile ELSE fs[q]]

\* json.dump(usage_data, f) on the file opened by open()
Dump(fs, doc) ==
    [fs EXCEPT ![file_path] = [docs |-> @.docs \o <<doc>>, torn |-> FALSE]]

\* json.dump stopped by an I/O error
DumpTorn(fs) ==
    [fs EXCEPT ![file_path] = [docs |-> @.docs, torn |-> TRUE]]

(***************************************************************************)
(* History of a run.                                                       *)
(***************************************************************************)
Pending == [tag |-> "pending"]
Raised == [tag |-> "raised"]
Call(fn, ret) == [fn |-> fn, ret |-> ret, failed |-> FALSE]
FailedCall(fn, ret) == [fn |-> fn, ret |-> ret, failed |-> TRUE]

\* the last call of the history returns ret
Return(h, ret, failed) ==
    [h EXCEPT ![Len(h)] = [fn |-> @.fn, ret |-> ret, failed |-> failed]]

\* prompt and response are the values of the two calls of expect()
NoChild == [spawned |-> FALSE, open |-> FALSE, sent |-> <<>>,
            prompt |-> None, response |-> None,
            before |-> None, after |-> None]

(***************************************************************************)
(* The initial state: the program has been started and nothing has run.    *)
(***************************************************************************)
Init ==
    /\ text = <<>>
    /\ parsed = None
    /\ npieces = 0
    /\ pc = "boot"
    /\ pexpectInstalled \in BOOLEAN
    /\ platform \in Platforms
    /\ output = None
    /\ percentage = None
    /\ success = FALSE
    /\ status = None
    /\ uncaught = ""
    /\ child = NoChild
    /\ exc = ""
    /\ pxout = None
    /\ calls = <<>>
    /\ dirs = {}
    /\ files = <<>>
    /\ files0 = <<>>
    /\ clock = 0
    /\ runs = 1

\* an exception nobody catches ends the interpreter with status 1
Abort(where) ==
    /\ pc' = "exited"
    /\ uncaught' = where
    /\ status' = PyInt(1)

(***************************************************************************)
(* Module level.                                                           *)
(***************************************************************************)
\* line 4: import pexpect
Boot ==
    /\ pc = "boot"
    /\ IF pexpectInstalled
       THEN pc' = "main" /\ UNCHANGED <<uncaught, status>>
       ELSE Abort("import pexpect")
    /\ UNCHANGED <<pexpectInstalled, platform, output, percentage, success,
                   child, exc, pxout, calls, dirs, files, files0, clock, runs>>
    /\ UNCHANGED parseVars

(***************************************************************************)
(* fetch_usage_with_pexpect, statement by statement.                       *)
(***************************************************************************)
\* main, lines 173-178: the module is already imported, so the import
\* succeeds and the driver is called
main_TryPexpect ==
    /\ pc = "main"
    /\ output' = None
    /\ calls' = Append(calls, Call("fetch_usage_with_pexpect", Pending))
    /\ child' = NoChild
    /\ exc' = ""
    /\ pxout' = None
    /\ pc' = "px_spawn"
    /\ UNCHANGED <<pexpectInstalled, platform, percentage, success, status,
                   uncaught, dirs, files, files0, clock, runs>>
    /\ UNCHANGED parseVars

\* line 17
px_Spawn ==
    /\ pc = "px_spawn"
    /\ \E ok \in BOOLEAN :
         IF ok
         THEN /\ child' = [child EXCEPT !.spawned = TRUE, !.open = TRUE]
              /\ pc' = "px_expect_prompt"
              /\ exc' = exc
         ELSE /\ exc' = "ExceptionPexpect"
              /\ pc' = "px_except"
              /\ child' = child
    /\ UNCHANGED <<pexpectInstalled, platform, output, percentage, success,
                   status, uncaught, pxout, calls, dirs, files, files0,
                   clock, runs>>
    /\ UNCHANGED parseVars

\* `index in [4, 5]`
PromptFailed(index) == index \in {4, 5}

\* lines 29-33: index 4 is EOF, index 5 is TIMEOUT
px_ExpectPrompt ==
    /\ pc = "px_expect_prompt"
    /\ \E index \in 0..5 :
         /\ child' = [child EXCEPT !.prompt = PyInt(index)]
         /\ IF PromptFailed(index)
            THEN /\ pc' = "main_after_pexpect"
                 /\ output' = None
                 /\ calls' = Return(calls, None, TRUE)
            ELSE /\ pc' = "px_send_usage"
                 /\ UNCHANGED <<output, calls>>
    /\ UNCHANGED <<pexpectInstalled, platform, percentage, success, status,
                   uncaught, exc, pxout, dirs, files, files0, clock, runs>>
    /\ UNCHANGED parseVars

\* line 38
px_SendUsage ==
    /\ pc = "px_send_usage"
    /\ \E ok \in BOOLEAN :
         IF ok
         THEN /\ child' = [child EXCEPT !.sent = Append(@, "/usage")]
              /\ pc' = "px_expect_response"
              /\ exc' = exc
         ELSE /\ exc' = "OSError"
              /\ pc' = "px_except"
              /\ child' = child
    /\ UNCHANGED <<pexpectInstalled, platform, output, percentage, success,
                   status, uncaught, pxout, calls, dirs, files, files0,
                   clock, runs>>
    /\ UNCHANGED parseVars

\* line 41: the pattern matches, the wait times out (TIMEOUT is in the
\* list: index 1, child.after is the TIMEOUT class), or the child ends
\* (EOF is not in the list: it is raised)
px_ExpectResponse ==
    /\ pc = "px_expect_response"
    /\ \/ \E m \in MatchedBuffers :
            /\ child' = [child EXCEPT !.response = PyInt(0),
                                         !.before = Bytes(m.before),
                                         !.after = Bytes(m.after)]
            /\ pc' = "px_decode"
            /\ exc' = exc
       \/ \E b \in TimeoutBuffers :
            /\ child' = [child EXCEPT !.response = PyInt(1),
                                         !.before = Bytes(b),
                                         !.after = TIMEOUT]
            /\ pc' = "px_decode"
            /\ exc' = exc
       \/ \E b \in TimeoutBuffers :
            /\ child' = [child EXCEPT !.before = Bytes(b), !.after = None]
            /\ exc' = "EOF"
            /\ pc' = "px_except"
    /\ UNCHANGED <<pexpectInstalled, platform, output, percentage, success,
                   status, uncaught, pxout, calls, dirs, files, files0,
                   clock, runs>>
    /\ UNCHANGED parseVars

\* line 44: only bytes have a decode method
px_Decode ==
    /\ pc = "px_decode"
    /\ IF child.before.tag = "bytes" /\ child.after.tag = "bytes"
       THEN /\ pxout' = PyStr(decode(child.before.s) \o decode(child.after.s))
            /\ pc' = "px_exit"
            /\ exc' = exc
       ELSE /\ exc' = "AttributeError"
            /\ pc' = "px_except"
            /\ pxout' = pxout
    /\ UNCHANGED <<pexpectInstalled, platform, output, percentage, success,
                   status, uncaught, child, calls, dirs, files, files0,
                   clock, runs>>
    /\ UNCHANGED parseVars

\* line 47
px_Exit ==
    /\ pc = "px_exit"
    /\ \E ok \in BOOLEAN :
         IF ok
         THEN /\ child' = [child EXCEPT !.sent = Append(@, "exit")]
              /\ pc' = "px_close"
              /\ exc' = exc
         ELSE /\ exc' = "OSError"
              /\ pc' = "px_except"
              /\ child' = child
    /\ UNCHANGED <<pexpectInstalled, platform, output, percentage, success,
                   status, uncaught, pxout, calls, dirs, files, files0,
                   clock, runs>>
    /\ UNCHANGED parseVars

\* line 48: close() raises when the child cannot be terminated
px_Close ==
    /\ pc = "px_close"
    /\ \E ok \in BOOLEAN :
         IF ok
         THEN /\ child' = [child EXCEPT !.open = FALSE]
              /\ pc' = "px_return"
              /\ exc' = exc
         ELSE /\ exc' = "ExceptionPexpect"
              /\ pc' = "px_except"
              /\ child' = child
    /\ UNCHANGED <<pexpectInstalled, platform, output, percentage, success,
                   status, uncaught, pxout, calls, dirs, files, files0,
                   clock, runs>>
    /\ UNCHANGED parseVars

\* line 50
px_Return ==
    /\ pc = "px_return"
    /\ output' = pxout
    /\ calls' = Return(calls, pxout, FALSE)
    /\ pc' = "main_after_pexpect"
    /\ UNCHANGED <<pexpectInstalled, platform, percentage, success, status,
                   uncaught, child, exc, pxout, dirs, files, files0, clock,
                   runs>>
    /\ UNCHANGED parseVars

\* lines 52-54; main catches ImportError only
px_Except ==
    /\ pc = "px_except"
    /\ IF CatchesException(exc)
       THEN /\ output' = None
            /\ calls' = Return(calls, None, TRUE)
            /\ pc' = "main_after_pexpect"
            /\ UNCHANGED <<uncaught, status>>
       ELSE /\ Abort("fetch_usage_with_pexpect")
            /\ calls' = Return(calls, Raised, TRUE)
            /\ output' = output
    /\ UNCHANGED <<pexpectInstalled, platform, percentage, success, child,
                   exc, pxout, dirs, files, files0, clock, runs>>
    /\ UNCHANGED parseVars

(***************************************************************************)
(* fetch_usage_with_subprocess and fetch_usage_with_script: what a call    *)
(* can end in.                                                             *)
(***************************************************************************)
\* Popen raises when `claude` is missing, communicate raises on timeout,
\* otherwise the stdout text is returned
SubprocessOutcomes ==
    { [raises |-> e, stdout |-> <<>>] :
        e \in {"FileNotFoundError", "TimeoutExpired"} }
    \cup { [raises |-> "", stdout |-> t] : t \in StdoutTexts }

\* subprocess.run raises when osascript is missing or on timeout, otherwise
\* result.stdout is returned (empty when the automation was denied)
ScriptOutcomes ==
    { [raises |-> e, stdout |-> <<>>] :
        e \in {"FileNotFoundError", "TimeoutExpired"} }
    \cup { [raises |-> "", stdout |-> t] : t \in StdoutTexts }

\* the call of a one-step driver from main: the try body and its handler
CallDriver(fn, o) ==
    IF o.raises = ""
    THEN /\ output' = PyStr(o.stdout)
         /\ calls' = Append(calls, Call(fn, PyStr(o.stdout)))
         /\ UNCHANGED <<uncaught, status>>
    ELSE IF CatchesException(o.raises)
    THEN /\ output' = None
         /\ calls' = Append(calls, FailedCall(fn, None))
         /\ UNCHANGED <<uncaught, status>>
    ELSE /\ output' = output
         /\ calls' = Append(calls, FailedCall(fn, Raised))
         /\ uncaught' = fn
         /\ status' = PyInt(1)

\* line 183: `if not output`
ShouldTrySubprocess == ~Truthy(output)

\* a variant of the test that forgets the platform
ShouldTryScriptAnywhere == ~Truthy(output)

\* line 186: `if not output and sys.platform == 'darwin'`
ShouldTryScript == ~Truthy(output) /\ platform = "darwin"

\* lines 183-184 with lines 56-77
main_TrySubprocess ==
    /\ pc = "main_after_pexpect"
    /\ IF ShouldTrySubprocess
       THEN \E o \in SubprocessOutcomes :
              /\ CallDriver("fetch_usage_with_subprocess", o)
              /\ pc' = IF o.raises = "" \/ CatchesException(o.raises)
                       THEN "main_after_subprocess" ELSE "exited"
       ELSE /\ pc' = "main_after_subprocess"
            /\ UNCHANGED <<output, calls, uncaught, status>>
    /\ UNCHANGED <<pexpectInstalled, platform, percentage, success, child,
                   exc, pxout, dirs, files, files0, clock, runs>>
    /\ UNCHANGED parseVars

\* lines 186-187 with lines 79-109
main_TryScript ==
    /\ pc = "main_after_subprocess"
    /\ IF ShouldTryScript
       THEN \E o \in ScriptOutcomes :
              /\ CallDriver("fetch_usage_with_script", o)
              /\ pc' = IF o.raises = "" \/ CatchesException(o.raises)
                       THEN "main_after_script" ELSE "exited"
       ELSE /\ pc' = "main_after_script"
            /\ UNCHANGED <<output, calls, uncaught, status>>
    /\ UNCHANGED <<pexpectInstalled, platform, percentage, success, child,
                   exc, pxout, dirs, files, files0, clock, runs>>
    /\ UNCHANGED parseVars

(***************************************************************************)
(* main after the drivers.                                                 *)
(***************************************************************************)
\* lines 189-192
main_CheckOutput ==
    /\ pc = "main_after_script"
    /\ IF ~Truthy(output)
       THEN success' = FALSE /\ pc' = "main_returned"
       ELSE success' = success /\ pc' = "main_parse"
    /\ UNCHANGED <<pexpectInstalled, platform, output, percentage, status,
                   uncaught, child, exc, pxout, calls, dirs, files, files0,
                   clock, runs>>
    /\ UNCHANGED parseVars

\* a variant of the test that saves whatever the parser returned
ShouldSaveAlways(p) == TRUE

\* line 197: `if percentage is not None`
ShouldSave(p) == p # None

\* lines 195-197 and 201-203
main_Parse ==
    /\ pc = "main_parse"
    /\ percentage' = parse_usage(output)
    /\ calls' = Append(calls, Call("parse_usage", parse_usage(output)))
    /\ IF ShouldSave(parse_usage(output))
       THEN pc' = "main_save" /\ success' = success
       ELSE pc' = "main_returned" /\ success' = FALSE
    /\ UNCHANGED <<pexpectInstalled, platform, output, status, uncaught,
                   child, exc, pxout, dirs, files, files0, clock, runs>>
    /\ UNCHANGED parseVars

\* where save_usage can be stopped by an OSError
SaveFailures == {"makedirs", "open", "dump"}

\* lines 198-200 with lines 137-169: the whole of save_usage.  The clock is
\* read twice, for resetAt and for timestamp.
main_Save ==
    /\ pc = "main_save"
    /\ \E stop \in SaveFailures \cup {"none"} : \E t2 \in {clock, clock + 1} :
         LET doc == usage_data(percentage, clock, t2)
             made == dirs \cup {dir_path}
             opened == OpenForWrite(files)
         IN  /\ dirs' = IF stop = "makedirs" THEN dirs ELSE made
             /\ files' = CASE stop \in {"makedirs", "open"} -> files
                           [] stop = "dump" -> DumpTorn(opened)
                           [] OTHER -> Dump(opened, doc)
             /\ clock' = IF stop \in {"makedirs", "open"} THEN clock ELSE t2
             /\ IF stop = "none"
                THEN /\ calls' = Append(calls, Call("save_usage", doc))
                     /\ success' = TRUE
                     /\ pc' = "main_returned"
                     /\ UNCHANGED <<uncaught, status>>
                ELSE /\ calls' = Append(calls, FailedCall("save_usage", Raised))
                     /\ success' = success
                     /\ Abort("save_usage")
    /\ UNCHANGED <<pexpectInstalled, platform, output, percentage, child,
                   exc, pxout, files0, runs>>
    /\ UNCHANGED parseVars

\* a variant of the exit status that reports success always
ExitCodeZero(ok) == 0

\* line 207: `0 if success else 1`
ExitCode(ok) == IF ok THEN 0 ELSE 1

\* lines 206-207
Exit ==
    /\ pc = "main_returned"
    /\ status' = PyInt(ExitCode(success))
    /\ pc' = "exited"
    /\ UNCHANGED <<pexpectInstalled, platform, output, percentage, success,
                   uncaught, child, exc, pxout, calls, dirs, files, files0,
                   clock, runs>>
    /\ UNCHANGED parseVars

\* the program is invoked again, on the file system the last run left
Restart ==
    /\ pc = "exited"
    /\ runs < MaxRuns
    /\ runs' = runs + 1
    /\ pc' = "boot"
    /\ output' = None
    /\ percentage' = None
    /\ success' = FALSE
    /\ status' = None
    /\ uncaught' = ""
    /\ child' = NoChild
    /\ exc' = ""
    /\ pxout' = None
    /\ calls' = <<>>
    /\ files0' = files
    /\ UNCHANGED <<pexpectInstalled, platform, dirs, files, clock>>
    /\ UNCHANGED parseVars

Next ==
    \/ Boot
    \/ main_TryPexpect
    \/ px_Spawn
    \/ px_ExpectPrompt
    \/ px_SendUsage
    \/ px_ExpectResponse
    \/ px_Decode
    \/ px_Exit
    \/ px_Close
    \/ px_Return
    \/ px_Except
    \/ main_TrySubprocess
    \/ main_TryScript
    \/ main_CheckOutput
    \/ main_Parse
    \/ main_Save
    \/ Exit
    \/ Restart

Spec == Init /\ [][Next]_vars

(***************************************************************************)
(* Properties of a run of the program.                                     *)
(***************************************************************************)
DriverOrder == <<"fetch_usage_with_pexpect", "fetch_usage_with_subprocess",
                 "fetch_usage_with_script">>
DriverFns == {DriverOrder[i] : i \in 1..Len(DriverOrder)}

IsDriverCall(c) == c.fn \in DriverFns
DriverCalls == SelectSeq(calls, IsDriverCall)
CallsOf(fn) == {i \in 1..Len(calls) : calls[i].fn = fn}

\* no output, or empty output
Falsy(ret) == ret = None \/ ret = PyStr(<<>>)
NonEmpty(ret) == ret.tag = "str" /\ ret.s # <<>>

\* the number of drivers that apply on this platform
Applicable == IF platform = "darwin" THEN Len(DriverOrder) ELSE Len(DriverOrder) - 1

AfterDrivers == pc \in {"main_after_script", "main_parse", "main_save",
                        "main_returned", "exited"}
Failure == PyInt(1)
Success == PyInt(0)

\* C1: the drivers are invoked in the order interactive-session, pipe-based,
\* OS-automation, each at most once; a later driver is invoked only if every
\* earlier one returned no output or empty output; the OS-automation driver
\* is invoked only on darwin; no driver is invoked after one has returned
\* non-empty output.
C1_DriverOrder ==
    /\ Len(DriverCalls) <= Len(DriverOrder)
    /\ \A i \in 1..Len(DriverCalls) : DriverCalls[i].fn = DriverOrder[i]
    /\ \A i \in 1..Len(DriverCalls) : \A j \in 1..Len(DriverCalls) :
         i < j => Falsy(DriverCalls[i].ret)
    /\ CallsOf("fetch_usage_with_script") # {} => platform = "darwin"
    /\ \A i \in 1..Len(DriverCalls) :
         NonEmpty(DriverCalls[i].ret) => i = Len(DriverCalls)

\* all three drivers ran in order and the last one returned text
C1_Witness ==
    /\ pc = "exited"
    /\ platform = "darwin"
    /\ Len(DriverCalls) = 3
    /\ DriverCalls[1].ret = None
    /\ DriverCalls[2].ret = PyStr(<<>>)
    /\ NonEmpty(DriverCalls[3].ret)

AllDriversFailed ==
    /\ Len(DriverCalls) = Applicable
    /\ \A i \in 1..Len(DriverCalls) : Falsy(DriverCalls[i].ret)

\* C2: if every applicable driver returned no output, the program ends with
\* failure status, parse_usage and save_usage are never invoked, and the
\* snapshot file is as it was before the run.
C2_DriverExhaustion ==
    AllDriversFailed =>
        /\ pc \in {"main_after_subprocess", "main_after_script",
                  "main_returned", "exited"}
        /\ CallsOf("parse_usage") = {}
        /\ CallsOf("save_usage") = {}
        /\ files = files0
        /\ pc = "main_returned" => success = FALSE
        /\ pc = "exited" => status = Failure /\ uncaught = ""

\* three drivers failed on darwin, with a snapshot left by an earlier run
C2_Witness ==
    /\ AllDriversFailed
    /\ Len(DriverCalls) = 3
    /\ pc = "exited"
    /\ status = Failure
    /\ file_path \in DOMAIN files0
    /\ files = files0

ParseFailed ==
    /\ \E i \in 1..Len(DriverCalls) : NonEmpty(DriverCalls[i].ret)
    /\ \E i \in CallsOf("parse_usage") : calls[i].ret = None

\* C3: if a driver returned non-empty output and no pattern matched it, the
\* program ends with failure status, save_usage is never invoked, the
\* snapshot file is unchanged, and nothing is called after the parser.
C3_ParseFailure ==
    ParseFailed =>
        /\ pc \in {"main_returned", "exited"}
        /\ CallsOf("save_usage") = {}
        /\ calls[Len(calls)].fn = "parse_usage"
        /\ Cardinality(CallsOf("parse_usage")) = 1
        /\ files = files0
        /\ success = FALSE
        /\ pc = "exited" => status = Failure /\ uncaught = ""

\* the pipe-based driver returned text without a percentage, with a
\* snapshot left by an earlier run
C3_Witness ==
    /\ ParseFailed
    /\ pc = "exited"
    /\ status = Failure
    /\ Len(DriverCalls) = 2
    /\ file_path \in DOMAIN files0
    /\ files = files0

FullPath ==
    /\ \E i \in 1..Len(DriverCalls) : NonEmpty(DriverCalls[i].ret)
    /\ \E i \in CallsOf("parse_usage") : calls[i].ret.tag = "int"
    /\ \E i \in CallsOf("save_usage") : ~calls[i].failed

\* C4: the program ends with success status exactly when a driver returned
\* non-empty output, the parser returned a percentage and save_usage
\* completed; every other end is a non-zero status.
C4_SuccessIffFullPath ==
    pc = "exited" =>
        /\ status \in {Success, Failure}
        /\ status = Success <=> FullPath

\* a run that succeeded after a run that save_usage's write error ended
C4_Witness ==
    /\ pc = "exited"
    /\ status = Success
    /\ FullPath
    /\ runs = 2
    /\ file_path \in DOMAIN files0
    /\ files0[file_path].torn

PexpectReturned ==
    /\ Len(calls) >= 1
    /\ calls[1].fn = "fetch_usage_with_pexpect"
    /\ calls[1].ret # Pending

\* C5: when the prompt was matched, the query sent and the wait for the
\* response timed out, the interactive-session driver returns the text
\* that was buffered.
C5_TimeoutReturnsBuffer ==
    (PexpectReturned /\ child.response = PyInt(1)) =>
        calls[1].ret = PyStr(decode(child.before.s))

\* C6: whenever the interactive-session driver has returned after spawning
\* the child, it has sent the exit command and closed the handle.
C6_ExitAndCloseBeforeReturn ==
    (PexpectReturned /\ child.spawned) =>
        /\ \E i \in 1..Len(child.sent) : child.sent[i] = "exit"
        /\ ~child.open

SnapshotOf(p, doc) ==
    /\ doc.percentage = p
    /\ doc.used = p
    /\ doc.limit = 100
    /\ doc.type = "5-hour"
    /\ doc.realData = TRUE

SaveCompleted ==
    /\ calls # <<>>
    /\ calls[Len(calls)].fn = "save_usage"
    /\ ~calls[Len(calls)].failed

\* C8: after save_usage has completed, whatever was saved before, exactly
\* one snapshot is at the fixed path, and it is the one the last call
\* built: percentage = used = the argument, limit = 100, type = "5-hour",
\* realData = true.
C8_TotalOverwrite ==
    SaveCompleted =>
        /\ DOMAIN files = {file_path}
        /\ files[file_path] = [docs |-> <<calls[Len(calls)].ret>>,
                               torn |-> FALSE]
        /\ SnapshotOf(percentage, files[file_path].docs[1])

\* the second save, of another percentage than the first
C8_Witness ==
    /\ SaveCompleted
    /\ runs = 2
    /\ file_path \in DOMAIN files0
    /\ Len(files0[file_path].docs) = 1
    /\ files0[file_path].docs[1].percentage # percentage
    /\ files[file_path].docs[1].percentage = percentage

\* C9: a driver that failed returned no output, no exception left a driver,
\* and once main is past the drivers every applicable driver after a failed
\* one has been called.
C9_DriverFailureContained ==
    /\ \A i \in 1..Len(DriverCalls) :
         DriverCalls[i].failed /\ DriverCalls[i].ret # Pending
            => DriverCalls[i].ret = None
    /\ uncaught \notin DriverFns
    /\ AfterDrivers =>
         \A i \in 1..Len(DriverCalls) :
            DriverCalls[i].failed /\ i < Applicable => Len(DriverCalls) > i

\* the first driver handled an AttributeError, the second a raised error,
\* and the program ended through sys.exit
C9_Witness ==
    /\ pc = "exited"
    /\ uncaught = ""
    /\ exc = "AttributeError"
    /\ Len(DriverCalls) = 3
    /\ DriverCalls[1].failed
    /\ DriverCalls[2].failed
    /\ status = Success

(***************************************************************************)
(* Parser harness: texts are built by concatenating pieces, and            *)
(* parse_usage is applied to every text.  The program itself stays at its  *)
(* start.                                                                  *)
(***************************************************************************)
Pieces ==
    { L_5hour, L_Model, L_Usage, L_Current,
      <<" ">>, <<"4","%">>, <<"7","%">>, <<"4">>, <<" ","o","f">> }

ParseInit ==
    /\ text = <<>>
    /\ parsed = parse_usage(PyStr(<<>>))
    /\ npieces = 0
    /\ pc = "boot"
    /\ pexpectInstalled = TRUE
    /\ platform = "linux"
    /\ output = None
    /\ percentage = None
    /\ success = FALSE
    /\ status = None
    /\ uncaught = ""
    /\ child = NoChild
    /\ exc = ""
    /\ pxout = None
    /\ calls = <<>>
    /\ dirs = {}
    /\ files = <<>>
    /\ files0 = <<>>
    /\ clock = 0
    /\ runs = 1

ParseAppend ==
    /\ npieces < MaxPieces
    /\ npieces' = npieces + 1
    /\ \E piece \in Pieces :
         /\ text' = text \o piece
         /\ parsed' = parse_usage(PyStr(text \o piece))
    /\ UNCHANGED mainVars

ParseNext == ParseAppend

SpecParse == ParseInit /\ [][ParseNext]_vars

(***************************************************************************)
(* Occurrences of percentages in a text, as the claims speak of them.      *)
(***************************************************************************)
Labels == {L_5hour, L_Model, L_Usage, L_Current}

\* a whole number followed by a percent sign starts at position j
NumberAt(s, j) ==
    /\ j \in 1..Len(s)
    /\ IsDigit(s[j])
    /\ (j = 1 \/ ~IsDigit(s[j - 1]))
    /\ DigitsEnd(s, j) <= Len(s)
    /\ s[DigitsEnd(s, j)] = "%"

NumberValue(s, j) == IntOf(SubSeq(s, j, DigitsEnd(s, j) - 1))

\* the number at j directly follows a label (optional white space between)
LabeledAt(s, j) ==
    /\ NumberAt(s, j)
    /\ \E lbl \in Labels : \E i \in 1..j :
         LitAt(lbl, s, i) /\ SkipSpaces(s, i + Len(lbl)) = j

LabeledNumbers(s) == {j \in 1..Len(s) : LabeledAt(s, j)}
BareNumbers(s) == {j \in 1..Len(s) : NumberAt(s, j) /\ ~LabeledAt(s, j)}

\* text holds one labeled occurrence, and a bare percentage of another value
OneLabeledAndBare(s) ==
    /\ Cardinality(LabeledNumbers(s)) = 1
    /\ \E j \in LabeledNumbers(s) : \E b \in BareNumbers(s) :
         NumberValue(s, b) # NumberValue(s, j)

\* C7: whenever the text holds one labeled occurrence N% and a bare
\* percentage M% with M # N, wherever they stand, parse_usage returns N.
C7_LabeledBeatsBare ==
    OneLabeledAndBare(text) =>
        \A j \in LabeledNumbers(text) : parsed = PyInt(NumberValue(text, j))

\* the bare percentage stands before the labeled one and is followed by "of"
C7_Witness ==
    /\ OneLabeledAndBare(text)
    /\ \E j \in LabeledNumbers(text) : \E b \in BareNumbers(text) :
         /\ b < j
         /\ NumberValue(text, b) # NumberValue(text, j)
         /\ Search(P_UsedOf, text) = PyInt(NumberValue(text, b))
         /\ parsed = PyInt(NumberValue(text, j))

PatternsWithoutCurrent == <<P_5hour, P_Model, P_Usage, P_UsedOf, P_Bare>>

\* C10: every text the "Current usage:" pattern matches is matched by the
\* "Usage:" pattern, and parse_usage returns what a parser without the
\* "Current usage:" pattern returns.
C10_CurrentNeverDecides ==
    /\ Search(P_Current, text) # None => Search(P_Usage, text) # None
    /\ parsed = parse_with(PatternsWithoutCurrent, PyStr(text))

\* "Current usage: N%" after a bare percentage of another value
C10_Witness ==
    /\ Search(P_Current, text) # None
    /\ \E b \in BareNumbers(text) :
         PyInt(NumberValue(text, b)) # Search(P_Current, text)
    /\ Search(P_5hour, text) = None
    /\ Search(P_Model, text) = None
    /\ parsed = Search(P_Current, text)
====
